---- MODULE Spec2Model ----
(***************************************************************************)
(* Beam planner of src/solution.cpp: solve() parses a scenario file into   *)
(* the scenario map and sat_beam_list, generate_user_vis_list() builds one *)
(* UserVisibilityEntry per user, std::sort orders them by number of        *)
(* visible satellites and assign_beams_and_print() greedily commits beams. *)
(*                                                                         *)
(* Ids are 0-based as in the code (sat_id = file id - 1); TLA+ sequences   *)
(* are 1-based, so v[k] of the code is v[k + 1] here.                      *)
(*                                                                         *)
(* Heap objects: solve() allocates one int per satellite line (shared by   *)
(* the four SatBeamEntry records of that line) and one vector per record.  *)
(* counters and beam_lists are those heaps; a record holds indexes into    *)
(* them, so the aliasing of total_sat_beam_count is kept.                  *)
(*                                                                         *)
(* Geometry: positions are integer points and calc_angle is kept exact as  *)
(* the pair (dot product, product of squared magnitudes); an angle is      *)
(* compared with a threshold through the signed squared cosine.  The       *)
(* float rounding of the code is not modelled.                             *)
(***************************************************************************)
EXTENDS Integers, Sequences, FiniteSets, TLC

\* ------------------------------------------------------------- bounds
\* Most satellite, user and interferer lines of one input file.
MaxSats == 2
MaxUsers == 6
MaxInterferers == 1
\* Largest coordinate of a position handed to calc_angle in SpecGeometry.
MaxCoord == 2
\* Files with more than WideUsers user lines are the crowded ones of
\* CrowdedShape: std::sort may leave n tied entries in any of n! orders.
WideUsers == MaxUsers - 3

\* ------------------------------------------------- program constants
\* BEAMS_PER_SATELLITE is 32 in the source.  It is scaled down so that a
\* satellite can run out of capacity within MaxUsers users; it stays above
\* COLORS_PER_SATELLITE so that a user can also conflict on all colours of a
\* satellite that still has capacity.
BEAMS_PER_SATELLITE == 5
COLORS_PER_SATELLITE == 4
MAX_USER_VISIBLE_ANGLE == 45
NON_STARLINK_INTERFERENCE_MAX == 20
SELF_INTERFERENCE_MAX == 10
COLOR_IDS == <<"A", "B", "C", "D">>
ORIGIN == <<0, 0, 0>>

\* -------------------------------------------------------- input sets
\* Positions an input line may carry.  From user <<0,5,0>> satellite
\* <<0,12,0>> is at 180 degrees, <<5,10,0>> at exactly 135 and <<-3,12,0>>
\* at 156.8; from user <<2,5,0>> they are at 142.3, 170.8 and 122.7.  The
\* interferer is within 20 degrees of <<0,12,0>> for both users.  Seen from
\* any satellite the two user positions are more than 10 degrees apart.
UserPositions == {<<0, 5, 0>>, <<2, 5, 0>>}
SatPositions == {<<0, 12, 0>>, <<5, 10, 0>>, <<-3, 12, 0>>}
InterfererPositions == {<<0, 20, 0>>}

\* The crowded input files: many users, the user lines in ascending x, no
\* interferer, and two satellite lines, the first of a satellite that sees
\* every user and the second of one that sees only the users at x = 2.  The
\* satellite ids are in either order, and every order of processing the
\* users still occurs, through the order std::sort leaves tied entries in.
CrowdedSats == <<(<<0, 12, 0>>), (<<5, 10, 0>>)>>
CrowdedShape(sc) ==
  /\ Len(sc.interferer) = 0
  /\ Len(sc.sat) <= Len(CrowdedSats)
  /\ \A k \in 1..Len(sc.sat) : sc.sat[k] = CrowdedSats[k]
  /\ \A k \in 1..(Len(sc.user) - 1) : sc.user[k][1] <= sc.user[k + 1][1]

\* The lines read so far can be the start of an input file of the model: no
\* two satellites share a position, and a file with many users is crowded.
InputShape(sc) ==
  /\ \A k, h \in 1..Len(sc.sat) : k # h => sc.sat[k] # sc.sat[h]
  /\ Len(sc.user) > WideUsers => CrowdedShape(sc)

\* The lines read are a whole input file of the model.  A crowded file has
\* users at both positions and either both satellites, or the first one
\* alone, which every user sees; then it has MaxUsers users, four of them
\* at x = 0, so that the satellite runs out of capacity.
FileShape(sc) ==
  Len(sc.user) > WideUsers =>
    /\ CrowdedShape(sc)
    /\ sc.user[1] # sc.user[Len(sc.user)]
    /\ \/ Len(sc.sat) = Len(CrowdedSats)
       \/ /\ Len(sc.sat) = 1
          /\ Len(sc.user) = MaxUsers
          /\ sc.user[4] # sc.user[5]

\* -------------------------------------------------------------- state
VARIABLES
  pc,             \* position in solve(): open, parse, vis, sort, assign, ...
  build,          \* "debug": assert() is checked; "ndebug": it is compiled
                  \* out; "any": no assertion failed yet, so both fit the run
  scenario,       \* scenario_t: role -> sequence of positions
  sat_beam_list,  \* vector<SatBeamEntry>
  counters,       \* heap of the ints behind total_sat_beam_count
  beam_lists,     \* heap of the vectors behind beam_list
  user_vis_list,  \* vector<UserVisibilityEntry>
  i,              \* assign_beams_and_print: index of the user entry
  sat_list_i,     \* assign_beams_and_print: index in the user's visible sats
  assigned_beam,  \* assign_beams_and_print: the user got a beam
  events,         \* the lines written to stdout, in order
  geo             \* SpecGeometry: the arguments and the result of one call
                  \* of calc_angle; <<>> in a run of solve()

vars == <<pc, build, scenario, sat_beam_list, counters, beam_lists,
          user_vis_list, i, sat_list_i, assigned_beam, events, geo>>

\* ----------------------------------------------------------- geometry
Dot(a, b) == a[1] * b[1] + a[2] * b[2] + a[3] * b[3]

Minus(a, b) == <<a[1] - b[1], a[2] - b[2], a[3] - b[3]>>

\* The angle at vertex between point_a and point_b, as its cosine
\* dot / sqrt(mag2).  mag2 = 0 (a point on the vertex) is the code's NaN; the
\* input sets keep users, satellites, interferers and the origin apart.
calc_angle(vertex, point_a, point_b) ==
  LET va == Minus(point_a, vertex)
      vb == Minus(point_b, vertex)
  IN [dot |-> Dot(va, vb), mag2 |-> Dot(va, va) * Dot(vb, vb)]

\* cos^2 of a threshold angle in thousandths, signed like the cosine.
\* cos^2(10) = 0.96985, cos^2(20) = 0.88302, cos^2(135) = 1/2 exactly, with a
\* negative cosine.  No two rays of the input sets have a squared cosine
\* between the rounded and the true value.
SignedCosSq(deg) ==
  CASE deg = 10 -> 970
    [] deg = 20 -> 883
    [] deg = 135 -> -500

Sign(x) == IF x < 0 THEN -1 ELSE 1

\* angle < deg: the cosine is larger than the threshold's.
AngleLT(angle, deg) ==
  Sign(angle.dot) * angle.dot * angle.dot * 1000 > SignedCosSq(deg) * angle.mag2

\* angle <= deg.
AngleLE(angle, deg) ==
  Sign(angle.dot) * angle.dot * angle.dot * 1000 >= SignedCosSq(deg) * angle.mag2

\* ----------------------------------------- calc_angle in float arithmetic
\* The arithmetic of lines 77-85 as the code does it: positions are floats,
\* pow and sqrt work in double on exact small integers, every other result
\* is rounded to float (24 bits, to nearest, ties to even).  A float is
\* sign * man * 2^exp with 2^23 <= man < 2^24, or zero.  Intermediate
\* integers stay below 2^31.
FloatZero == [sign |-> 0, man |-> 0, exp |-> 0]
FloatOne == [sign |-> 1, man |-> 2^23, exp |-> -23]
FloatMinusOne == [sign |-> -1, man |-> 2^23, exp |-> -23]

RECURSIVE BitLength(_)
BitLength(x) == IF x = 0 THEN 0 ELSE 1 + BitLength(x \div 2)

\* sign * m * 2^e rounded to a float.  When bits were lost below m, the
\* caller has set the lowest bit of m (sticky) and m has 26 bits or more.
RoundToFloat(sign, m, e) ==
  IF m = 0 THEN FloatZero
  ELSE LET len == BitLength(m)
       IN IF len <= 24
          THEN [sign |-> sign, man |-> m * 2^(24 - len), exp |-> e - (24 - len)]
          ELSE LET k == len - 24
                   q == m \div 2^k
                   r == m % 2^k
                   half == 2^(k - 1)
                   up == r > half \/ (r = half /\ q % 2 = 1)
                   rounded == IF up THEN q + 1 ELSE q
               IN IF rounded = 2^24
                  THEN [sign |-> sign, man |-> 2^23, exp |-> e + k + 1]
                  ELSE [sign |-> sign, man |-> rounded, exp |-> e + k]

\* m with the sticky bit set when bits were lost.
Sticky(m, lost) == IF lost /\ m % 2 = 0 THEN m + 1 ELSE m

\* A float that holds a small integer.
FloatOfInt(x) ==
  RoundToFloat(IF x < 0 THEN -1 ELSE 1, IF x < 0 THEN -x ELSE x, 0)

\* The square root digit by digit, two bits of n at a time from bit pair
\* pair_i down, zeros after the last bit, until root has 26 bits.
RECURSIVE SqrtDigits(_, _, _, _)
SqrtDigits(root, rem, n, pair_i) ==
  IF root >= 2^25 THEN <<root, rem, pair_i + 1>>
  ELSE LET pair == IF pair_i >= 0 THEN (n \div 4^pair_i) % 4 ELSE 0
           r == rem * 4 + pair
           t == root * 4 + 1
       IN IF r >= t THEN SqrtDigits(root * 2 + 1, r - t, n, pair_i - 1)
                    ELSE SqrtDigits(root * 2, r, n, pair_i - 1)

\* (float) sqrt(n) for an integer 0 < n < 4^8: the double result rounded to
\* float is the root rounded once.
FloatSqrt(n) ==
  LET d == SqrtDigits(0, 0, n, 7)
  IN RoundToFloat(1, Sticky(d[1], d[2] # 0), d[3])

\* Long division: steps quotient bits of r / d, for r < 2 * d.
RECURSIVE DivDigits(_, _, _, _)
DivDigits(q, r, d, steps) ==
  IF steps = 0 THEN <<q, r>>
  ELSE IF r >= d THEN DivDigits(q * 2 + 1, (r - d) * 2, d, steps - 1)
       ELSE DivDigits(q * 2, r * 2, d, steps - 1)

\* x / y in float, y not zero.
FloatDiv(x, y) ==
  IF x.sign = 0 THEN FloatZero
  ELSE LET d == DivDigits(0, x.man, y.man, 27)
       IN RoundToFloat(x.sign * y.sign, Sticky(d[1], d[2] # 0),
                       x.exp - y.exp - 26)

\* x * y in float: the 48-bit product of the mantissas from 12-bit halves.
FloatMul(x, y) ==
  IF x.sign = 0 \/ y.sign = 0 THEN FloatZero
  ELSE LET a1 == x.man \div 2^12
           a0 == x.man % 2^12
           b1 == y.man \div 2^12
           b0 == y.man % 2^12
           mid == a1 * b0 + a0 * b1
           low == a0 * b0 + (mid % 2^12) * 2^12
           upper == a1 * b1 + mid \div 2^12 + low \div 2^24
           low24 == low % 2^24
       IN RoundToFloat(x.sign * y.sign,
                       Sticky(upper * 8 + low24 \div 2^21, low24 % 2^21 # 0),
                       x.exp + y.exp + 21)

\* x + y in float: the smaller operand is shifted to the exponent of the
\* larger with three more bits, the last of them sticky.
FloatAdd(x, y) ==
  IF x.sign = 0 THEN y
  ELSE IF y.sign = 0 THEN x
  ELSE LET x_big == x.exp > y.exp \/ (x.exp = y.exp /\ x.man >= y.man)
           big == IF x_big THEN x ELSE y
           small == IF x_big THEN y ELSE x
           shift == big.exp - small.exp
           mb == big.man * 8
           ms == IF shift >= 27 THEN 1
                 ELSE Sticky((small.man * 8) \div 2^shift,
                             (small.man * 8) % 2^shift # 0)
       IN IF big.sign = small.sign
          THEN RoundToFloat(big.sign, mb + ms, big.exp - 3)
          ELSE RoundToFloat(big.sign, mb - ms, big.exp - 3)

\* x < y for two floats.
FloatLess(x, y) ==
  LET below(a, b) == a.exp < b.exp \/ (a.exp = b.exp /\ a.man < b.man)
  IN CASE x.sign < y.sign -> TRUE
       [] x.sign > y.sign -> FALSE
       [] x.sign = 0 -> FALSE
       [] x.sign = 1 -> below(x, y)
       [] OTHER -> below(y, x)

\* Lines 77-78: va_mag, vb_mag.  v is not the zero vector.
vec_mag(v) == FloatSqrt(v[1] * v[1] + v[2] * v[2] + v[3] * v[3])

\* Lines 80-81: va_norm, vb_norm.
vec_norm(v) == [n \in 1..3 |-> FloatDiv(FloatOfInt(v[n]), vec_mag(v))]

\* Line 83, summed from the left.
dot_product(va_norm, vb_norm) ==
  FloatAdd(FloatAdd(FloatMul(va_norm[1], vb_norm[1]),
                    FloatMul(va_norm[2], vb_norm[2])),
           FloatMul(va_norm[3], vb_norm[3]))

\* The macros of lines 65-66.
MIN(a, b) == IF FloatLess(a, b) THEN a ELSE b
MAX(a, b) == IF FloatLess(b, a) THEN a ELSE b

\* Line 85: the cosine handed to acos.  acos is decreasing from 180 degrees
\* at -1 to 0 at 1 and is 0 at 1 only, so the angle returned is decided by
\* this float.
dot_product_bound(vertex, point_a, point_b) ==
  MIN(FloatOne, MAX(FloatMinusOne,
      dot_product(vec_norm(Minus(point_a, vertex)),
                  vec_norm(Minus(point_b, vertex)))))

\* ------------------------------------------------------------- solve
Init ==
  /\ pc = "open"
  /\ build = "any"
  /\ scenario = [user |-> <<>>, sat |-> <<>>, interferer |-> <<>>]
  /\ sat_beam_list = <<>>
  /\ counters = <<>>
  /\ beam_lists = <<>>
  /\ user_vis_list = <<>>
  /\ i = 0
  /\ sat_list_i = 0
  /\ assigned_beam = FALSE
  /\ events = <<>>
  /\ geo = <<>>

\* ifstream scenario_file(filename) succeeded.
OpenFile ==
  /\ pc = "open"
  /\ pc' = "parse"
  /\ UNCHANGED <<build, scenario, sat_beam_list, counters, beam_lists,
                 user_vis_list, i, sat_list_i, assigned_beam, events, geo>>

\* scenario_file.fail(): "File ... does not exist", return.
OpenFails ==
  /\ pc = "open"
  /\ pc' = "no_file"
  /\ UNCHANGED <<build, scenario, sat_beam_list, counters, beam_lists,
                 user_vis_list, i, sat_list_i, assigned_beam, events, geo>>

\* The satellite ids (0-based) of the satellite lines read so far.
SatIdsRead == {sat_beam_list[k].sat_id : k \in 1..Len(sat_beam_list)}

\* Mutant of NewSatEntries: one vector for the four records of a line.
NewSatEntries_SharedList(id, first_list, counter) ==
  [c \in 1..COLORS_PER_SATELLITE |->
     [sat_id |-> id, color |-> COLOR_IDS[c],
      beam_list |-> first_list,
      total_sat_beam_count |-> counter]]

\* The four SatBeamEntry records of one satellite line: one shared counter,
\* one beam list each.
NewSatEntries(id, first_list, counter) ==
  [c \in 1..COLORS_PER_SATELLITE |->
     [sat_id |-> id, color |-> COLOR_IDS[c],
      beam_list |-> first_list + c - 1,
      total_sat_beam_count |-> counter]]

\* A line "sat <id> x y z".  The file gives every satellite id once, so that
\* scenario["sat"][sat_id] exists for every record (see EndOfFile).
ReadSatLine(id, pos) ==
  /\ pc = "parse"
  /\ Len(scenario.sat) < MaxSats
  /\ id - 1 \notin SatIdsRead
  /\ scenario' = [scenario EXCEPT !.sat = Append(@, pos)]
  /\ InputShape(scenario')
  /\ counters' = Append(counters, 0)
  /\ beam_lists' = beam_lists \o [c \in 1..COLORS_PER_SATELLITE |-> <<>>]
  /\ sat_beam_list' = sat_beam_list
        \o NewSatEntries(id - 1, Len(beam_lists) + 1, Len(counters) + 1)
  /\ UNCHANGED <<pc, build, user_vis_list, i, sat_list_i, assigned_beam,
                 events, geo>>

\* A line "user <id> x y z"; the id is not read.
ReadUserLine(pos) ==
  /\ pc = "parse"
  /\ Len(scenario.user) < MaxUsers
  /\ scenario' = [scenario EXCEPT !.user = Append(@, pos)]
  /\ InputShape(scenario')
  /\ UNCHANGED <<pc, build, sat_beam_list, counters, beam_lists,
                 user_vis_list, i, sat_list_i, assigned_beam, events, geo>>

\* A line "interferer <id> x y z"; the id is not read.
ReadInterfererLine(pos) ==
  /\ pc = "parse"
  /\ Len(scenario.interferer) < MaxInterferers
  /\ scenario' = [scenario EXCEPT !.interferer = Append(@, pos)]
  /\ InputShape(scenario')
  /\ UNCHANGED <<pc, build, sat_beam_list, counters, beam_lists,
                 user_vis_list, i, sat_list_i, assigned_beam, events, geo>>

\* Mutant of ReadMalformedLine: the line is reported, but before the run
\* ends the lines read so far are handed on and one entry per user is built.
ReadMalformedLine_Partial ==
  /\ pc = "parse"
  /\ pc' = "bad_line"
  /\ user_vis_list' = [k \in 1..Len(scenario.user) |->
                         [user_id |-> k - 1, visible_sats |-> <<>>]]
  /\ UNCHANGED <<build, scenario, sat_beam_list, counters, beam_lists,
                 i, sat_list_i, assigned_beam, events, geo>>

\* A line that does not split into 5 tokens: "couldn't read line!", return.
ReadMalformedLine ==
  /\ pc = "parse"
  /\ pc' = "bad_line"
  /\ UNCHANGED <<build, scenario, sat_beam_list, counters, beam_lists,
                 user_vis_list, i, sat_list_i, assigned_beam, events, geo>>

\* getline fails: the file is read.  The satellite lines carried the ids
\* 1..N, each once, in any order.
EndOfFile ==
  /\ pc = "parse"
  /\ SatIdsRead = 0..(Len(scenario.sat) - 1)
  /\ FileShape(scenario)
  /\ pc' = "vis"
  /\ UNCHANGED <<build, scenario, sat_beam_list, counters, beam_lists,
                 user_vis_list, i, sat_list_i, assigned_beam, events, geo>>

\* -------------------------------------------- generate_user_vis_list
\* Mutant of OutsideUserRange: < for <=, so that a satellite at exactly
\* 135 degrees counts as visible.
OutsideUserRange_Strict(user_pos, sat_pos) ==
  AngleLT(calc_angle(user_pos, ORIGIN, sat_pos), 180 - MAX_USER_VISIBLE_ANGLE)

\* calc_angle(user_pos, ORIGIN, sat_pos) <= 180.0 - MAX_USER_VISIBLE_ANGLE:
\* the satellite is outside the range of the user.
OutsideUserRange(user_pos, sat_pos) ==
  AngleLE(calc_angle(user_pos, ORIGIN, sat_pos), 180 - MAX_USER_VISIBLE_ANGLE)

\* One interferer is too close to the line from the user to the satellite.
InterfererTooClose(user_pos, int_pos, sat_pos) ==
  AngleLT(calc_angle(user_pos, int_pos, sat_pos), NON_STARLINK_INTERFERENCE_MAX)

\* The loop over the interferers.
interferer_violation(user_pos, sat_pos) ==
  \E int_i \in 1..Len(scenario.interferer) :
     InterfererTooClose(user_pos, scenario.interferer[int_i], sat_pos)

\* Mutant of VisibleFrom: satellite 0 is taken as visible without a look at
\* the records.
VisibleFrom_WithoutRecords(user_i, sat_beam_i) == <<0>>

\* The satellite loop for one user, from record sat_beam_i (a multiple of
\* COLORS_PER_SATELLITE) on: the record's sat_id is the id appended, and the
\* position tested is scenario["sat"][sat_id].
RECURSIVE VisibleFrom(_, _)
VisibleFrom(user_i, sat_beam_i) ==
  IF sat_beam_i >= Len(sat_beam_list) THEN <<>>
  ELSE LET sat_id == sat_beam_list[sat_beam_i + 1].sat_id
           sat_pos == scenario.sat[sat_id + 1]
           user_pos == scenario.user[user_i + 1]
           rest == VisibleFrom(user_i, sat_beam_i + COLORS_PER_SATELLITE)
       IN IF OutsideUserRange(user_pos, sat_pos) THEN rest
          ELSE IF interferer_violation(user_pos, sat_pos) THEN rest
          ELSE <<sat_id>> \o rest

\* Mutant of BuildUserEntry: the vector of visible satellites is allocated
\* once, outside the user loop, so every entry points to the same vector.
BuildUserEntry_SharedVector ==
  /\ pc = "vis"
  /\ Len(user_vis_list) < Len(scenario.user)
  /\ LET user_i == Len(user_vis_list)
         shared == (IF user_i = 0 THEN <<>> ELSE user_vis_list[1].visible_sats)
                     \o VisibleFrom(user_i, 0)
     IN user_vis_list' = [k \in 1..(user_i + 1) |->
                            [user_id |-> k - 1, visible_sats |-> shared]]
  /\ UNCHANGED <<pc, build, scenario, sat_beam_list, counters, beam_lists,
                 i, sat_list_i, assigned_beam, events, geo>>

\* One iteration of the user loop: the entry of user Len(user_vis_list).
BuildUserEntry ==
  /\ pc = "vis"
  /\ Len(user_vis_list) < Len(scenario.user)
  /\ LET user_i == Len(user_vis_list)
     IN user_vis_list' = Append(user_vis_list,
           [user_id |-> user_i, visible_sats |-> VisibleFrom(user_i, 0)])
  /\ UNCHANGED <<pc, build, scenario, sat_beam_list, counters, beam_lists,
                 i, sat_list_i, assigned_beam, events, geo>>

\* ------------------------------------------------------------- sort
\* Mutant of sortUsersByPotentialCoverage: the comparison turned around.
sortUsersByPotentialCoverage_Descending(u1, u2) ==
  Len(u1.visible_sats) > Len(u2.visible_sats)

sortUsersByPotentialCoverage(u1, u2) ==
  Len(u1.visible_sats) < Len(u2.visible_sats)

\* The orders the elements of a set of indexes can be put in.
RECURSIVE Perms(_)
Perms(S) ==
  IF S = {} THEN {<<>>}
  ELSE UNION {{<<x>> \o p : p \in Perms(S \ {x})} : x \in S}

\* A sequence is a possible result of std::sort under the comparator: no
\* later element compares less than an earlier one.  std::sort is not
\* stable, so entries that compare equal may end in any order.
Sorted(list) ==
  \A a, b \in 1..Len(list) :
     a < b => ~sortUsersByPotentialCoverage(list[b], list[a])

\* return user_vis_list, then std::sort(..., sortUsersByPotentialCoverage).
SortUsers ==
  /\ pc = "vis"
  /\ Len(user_vis_list) = Len(scenario.user)
  /\ \E p \in Perms(1..Len(user_vis_list)) :
       LET sorted == [k \in 1..Len(user_vis_list) |-> user_vis_list[p[k]]]
       IN /\ Sorted(sorted)
          /\ user_vis_list' = sorted
  /\ pc' = "assign"
  /\ UNCHANGED <<build, scenario, sat_beam_list, counters, beam_lists,
                 i, sat_list_i, assigned_beam, events, geo>>

\* -------------------------------------------- assign_beams_and_print
\* Mutant of CapacityExhausted: > for >=.
CapacityExhausted_OffByOne(count) == count > BEAMS_PER_SATELLITE

\* Line 142: the satellite has no beam left.
CapacityExhausted(count) == count >= BEAMS_PER_SATELLITE

\* Mutant of self_interference: only the first beam of the colour is looked at.
self_interference_FirstOnly(sat_pos, user_pos, current_beam_list) ==
  /\ Len(current_beam_list) > 0
  /\ AngleLT(calc_angle(sat_pos, user_pos, current_beam_list[1]),
             SELF_INTERFERENCE_MAX)

\* The beam loop of lines 162-169 over one colour's beam list.
self_interference(sat_pos, user_pos, current_beam_list) ==
  \E beam_i \in 1..Len(current_beam_list) :
     AngleLT(calc_angle(sat_pos, user_pos, current_beam_list[beam_i]),
             SELF_INTERFERENCE_MAX)

\* Mutant of FreeColors: the beams of the last colour are not looked at.
FreeColors_LastUnchecked(sat_beam_i, sat_pos, user_pos) ==
  {color_i \in 0..(COLORS_PER_SATELLITE - 1) :
     \/ color_i = COLORS_PER_SATELLITE - 1
     \/ ~self_interference(sat_pos, user_pos,
          beam_lists[sat_beam_list[sat_beam_i + color_i + 1].beam_list])}

\* The colour indexes (0-based) whose record at sat_beam_i + color_i holds
\* no beam that interferes with the user.
FreeColors(sat_beam_i, sat_pos, user_pos) ==
  {color_i \in 0..(COLORS_PER_SATELLITE - 1) :
     ~self_interference(sat_pos, user_pos,
        beam_lists[sat_beam_list[sat_beam_i + color_i + 1].beam_list])}

\* Mutant of Min: the colour loop runs from the last colour down.
Min_LastFirst(S) == CHOOSE x \in S : \A y \in S : x >= y

\* The colour loop of line 153 stops at the first colour that is free.
Min(S) == CHOOSE x \in S : \A y \in S : x <= y

\* Mutant of EventLine: the count is written before it is incremented.
EventLine_BeforeIncrement(entry, count, user_i) ==
  [sat |-> entry.sat_id + 1, beam |-> count - 1, user |-> user_i + 1,
   color |-> entry.color]

\* The output line of lines 180-183.
EventLine(entry, count, user_i) ==
  [sat |-> entry.sat_id + 1, beam |-> count, user |-> user_i + 1,
   color |-> entry.color]

\* Mutant of MoreSats: the loop does not stop at the first beam.
MoreSats_IgnoreAssigned(list_i, num_visible_sats, assigned) ==
  list_i < num_visible_sats

\* The while condition of line 136.
MoreSats(list_i, num_visible_sats, assigned) ==
  list_i < num_visible_sats /\ ~assigned

InUserLoop == pc = "assign" /\ i < Len(user_vis_list)

InSatLoop ==
  /\ InUserLoop
  /\ MoreSats(sat_list_i, Len(user_vis_list[i + 1].visible_sats), assigned_beam)

\* The locals of one iteration of the while loop.
cur_user_i == user_vis_list[i + 1].user_id
cur_sat_i == user_vis_list[i + 1].visible_sats[sat_list_i + 1]
cur_sat_beam_i == cur_sat_i * COLORS_PER_SATELLITE
cur_beam_entry == sat_beam_list[cur_sat_beam_i + 1]
cur_sat_pos == scenario.sat[cur_sat_i + 1]
cur_user_pos == scenario.user[cur_user_i + 1]

\* Lines 142-146: the satellite is full, go to the next one.
SkipFullSat ==
  /\ InSatLoop
  /\ CapacityExhausted(counters[cur_beam_entry.total_sat_beam_count])
  /\ sat_list_i' = sat_list_i + 1
  /\ UNCHANGED <<pc, build, scenario, sat_beam_list, counters, beam_lists,
                 user_vis_list, i, assigned_beam, events, geo>>

\* The assertion of line 155.  The four records of a satellite line carry
\* the same sat_id, so its first evaluation decides for all colours.
AssertionHolds == cur_beam_entry.sat_id = cur_sat_i

\* Line 155 fails in a build that checks assertions: the program aborts.
\* The build is fixed before the run and shows only here, so the model
\* settles it at the first assertion that fails.
AssertionFails ==
  /\ InSatLoop
  /\ ~CapacityExhausted(counters[cur_beam_entry.total_sat_beam_count])
  /\ ~AssertionHolds
  /\ build = "any"
  /\ build' = "debug"
  /\ pc' = "aborted"
  /\ UNCHANGED <<scenario, sat_beam_list, counters, beam_lists,
                 user_vis_list, i, sat_list_i, assigned_beam, events, geo>>

\* Line 155 lets the run go on: it holds, or the build is one with NDEBUG.
AssertionPasses ==
  /\ build' = IF AssertionHolds THEN build ELSE "ndebug"

\* Lines 153-189 when a colour is free: the first one takes the beam; after
\* the break, line 189 still advances sat_list_i.
CommitBeam ==
  /\ InSatLoop
  /\ ~CapacityExhausted(counters[cur_beam_entry.total_sat_beam_count])
  /\ AssertionPasses
  /\ FreeColors(cur_sat_beam_i, cur_sat_pos, cur_user_pos) # {}
  /\ LET color_i == Min(FreeColors(cur_sat_beam_i, cur_sat_pos, cur_user_pos))
         next_beam_entry == sat_beam_list[cur_sat_beam_i + color_i + 1]
         count == counters[next_beam_entry.total_sat_beam_count] + 1
     IN /\ beam_lists' = [beam_lists EXCEPT
                            ![next_beam_entry.beam_list] = Append(@, cur_user_pos)]
        /\ counters' = [counters EXCEPT
                            ![next_beam_entry.total_sat_beam_count] = count]
        /\ events' = Append(events, EventLine(next_beam_entry, count, cur_user_i))
  /\ assigned_beam' = TRUE
  /\ sat_list_i' = sat_list_i + 1
  /\ UNCHANGED <<pc, scenario, sat_beam_list, user_vis_list, i, geo>>

\* Lines 153-189 when every colour interferes: go to the next satellite.
NoColorFree ==
  /\ InSatLoop
  /\ ~CapacityExhausted(counters[cur_beam_entry.total_sat_beam_count])
  /\ AssertionPasses
  /\ FreeColors(cur_sat_beam_i, cur_sat_pos, cur_user_pos) = {}
  /\ sat_list_i' = sat_list_i + 1
  /\ UNCHANGED <<pc, scenario, sat_beam_list, counters, beam_lists,
                 user_vis_list, i, assigned_beam, events, geo>>

\* The while loop ends: i ++ and the locals of the next user.
NextUser ==
  /\ InUserLoop
  /\ ~MoreSats(sat_list_i, Len(user_vis_list[i + 1].visible_sats), assigned_beam)
  /\ i' = i + 1
  /\ sat_list_i' = 0
  /\ assigned_beam' = FALSE
  /\ UNCHANGED <<pc, build, scenario, sat_beam_list, counters, beam_lists,
                 user_vis_list, events, geo>>

\* The user loop ends: assign_beams_and_print and solve return.
Return ==
  /\ pc = "assign"
  /\ i >= Len(user_vis_list)
  /\ pc' = "done"
  /\ UNCHANGED <<build, scenario, sat_beam_list, counters, beam_lists,
                 user_vis_list, i, sat_list_i, assigned_beam, events, geo>>

Next ==
  \/ OpenFile
  \/ OpenFails
  \/ \E id \in 1..MaxSats, pos \in SatPositions : ReadSatLine(id, pos)
  \/ \E pos \in UserPositions : ReadUserLine(pos)
  \/ \E pos \in InterfererPositions : ReadInterfererLine(pos)
  \/ ReadMalformedLine
  \/ EndOfFile
  \/ BuildUserEntry
  \/ SortUsers
  \/ SkipFullSat
  \/ AssertionFails
  \/ CommitBeam
  \/ NoColorFree
  \/ NextUser
  \/ Return

Spec == Init /\ [][Next]_vars

\* The program is sequential and nothing holds it up: it takes its next step
\* as long as it has one.
SpecFair == Spec /\ WF_vars(Next)

\* ------------------------------------------------- calc_angle on its own
\* One call of calc_angle: the arguments are any three integer points of the
\* cube 0..MaxCoord with point_a and point_b off the vertex (on the vertex
\* the magnitude is 0 and the code divides by it).
GeoPoints ==
  {<<x, y, z>> : x \in 0..MaxCoord, y \in 0..MaxCoord, z \in 0..MaxCoord}

InitGeometry ==
  /\ pc = "calc_angle"
  /\ build = "any"
  /\ scenario = [user |-> <<>>, sat |-> <<>>, interferer |-> <<>>]
  /\ sat_beam_list = <<>>
  /\ counters = <<>>
  /\ beam_lists = <<>>
  /\ user_vis_list = <<>>
  /\ i = 0
  /\ sat_list_i = 0
  /\ assigned_beam = FALSE
  /\ events = <<>>
  /\ \E vertex \in GeoPoints : \E point_a, point_b \in GeoPoints \ {vertex} :
        geo = [vertex |-> vertex, point_a |-> point_a, point_b |-> point_b]

\* The call returns; the float handed to acos stands for the angle.
CallCalcAngle ==
  /\ pc = "calc_angle"
  /\ pc' = "returned"
  /\ geo' = [vertex |-> geo.vertex, point_a |-> geo.point_a,
             point_b |-> geo.point_b,
             cosine |-> dot_product_bound(geo.vertex, geo.point_a, geo.point_b)]
  /\ UNCHANGED <<build, scenario, sat_beam_list, counters, beam_lists,
                 user_vis_list, i, sat_list_i, assigned_beam, events>>

NextGeometry == CallCalcAngle

SpecGeometry == InitGeometry /\ [][NextGeometry]_vars

\* ============================================================ claims
\* A satellite is what one "sat" line of the input declares: its id, its
\* position and the records solve() creates for it.  Line k (1-based) holds
\* the position scenario.sat[k] and the records 4(k-1)+1 .. 4k.
SatLines == 1..Len(scenario.sat)
Colors == 1..COLORS_PER_SATELLITE
RecordOf(k, c) == sat_beam_list[(k - 1) * COLORS_PER_SATELLITE + c]
IdOf(k) == RecordOf(k, 1).sat_id
SlotOf(k, c) == beam_lists[RecordOf(k, c).beam_list]
CounterOf(k, c) == counters[RecordOf(k, c).total_sat_beam_count]
PositionOf(k) == scenario.sat[k]
\* The line that declares satellite id (0-based).
LineOf(id) == CHOOSE k \in SatLines : IdOf(k) = id

RECURSIVE SumSlots(_, _)
SumSlots(k, c) == IF c = 0 THEN 0 ELSE Len(SlotOf(k, c)) + SumSlots(k, c - 1)

Range(seq) == {seq[n] : n \in 1..Len(seq)}

\* The two tests of the Visibility Builder, stated from the thresholds: the
\* angle at the user between the origin and the satellite is above 135, and
\* no interferer is below 20 degrees from the satellite.
PassesElevation(user_pos, sat_pos) ==
  ~AngleLE(calc_angle(user_pos, ORIGIN, sat_pos), 135)
PassesInterferers(user_pos, sat_pos) ==
  \A n \in 1..Len(scenario.interferer) :
     ~AngleLT(calc_angle(user_pos, scenario.interferer[n], sat_pos), 20)

\* C1: at every moment, for every satellite, the counter its four BeamSlots
\* share equals the sum of their sizes and lies in 0..BEAMS_PER_SATELLITE.
C1_CounterIsSumOfSlots ==
  \A k \in SatLines : \A c \in Colors :
     /\ CounterOf(k, c) = SumSlots(k, COLORS_PER_SATELLITE)
     /\ 0 <= CounterOf(k, c)
     /\ CounterOf(k, c) <= BEAMS_PER_SATELLITE

\* C1 witness: a satellite has used its whole capacity and a later user,
\* finding it full, went to another satellite.
C1_Witness ==
  /\ pc = "done"
  /\ \E k, h \in SatLines :
        /\ CounterOf(k, 1) = BEAMS_PER_SATELLITE
        /\ h # k
        /\ CounterOf(h, 1) >= 1

\* C2: in every BeamSlot any two entries are at least 10 degrees apart as
\* seen from the slot's satellite.
C2_SlotEntriesApart ==
  \A k \in SatLines : \A c \in Colors :
     \A m, n \in 1..Len(SlotOf(k, c)) :
        m # n => ~AngleLT(calc_angle(PositionOf(k), SlotOf(k, c)[m],
                                     SlotOf(k, c)[n]), 10)

\* C2 witness: a slot holds two beams while another user was moved to the
\* next colour of the same satellite.
C2_Witness ==
  \E k \in SatLines : Len(SlotOf(k, 1)) >= 2 /\ Len(SlotOf(k, 2)) >= 1

\* C3: the user of every output line passes the elevation test and the
\* interferer test against the satellite the line names.
C3_EventsAreVisible ==
  \A n \in 1..Len(events) :
     LET user_pos == scenario.user[events[n].user]
         sat_pos == PositionOf(LineOf(events[n].sat - 1))
     IN PassesElevation(user_pos, sat_pos) /\ PassesInterferers(user_pos, sat_pos)

\* C3 witness: a line was written although an interferer blocks another
\* satellite for that user.
C3_Witness ==
  /\ Len(scenario.interferer) > 0
  /\ \E n \in 1..Len(events) : \E k \in SatLines :
        /\ PassesElevation(scenario.user[events[n].user], PositionOf(k))
        /\ ~PassesInterferers(scenario.user[events[n].user], PositionOf(k))

\* C4: no user is named in two output lines, and once a user has a beam no
\* further satellite is tried for it.
C4_OneEventPerUser ==
  /\ \A m, n \in 1..Len(events) : m # n => events[m].user # events[n].user
  /\ assigned_beam => ~InSatLoop

\* C4 witness: a user got its beam on the first of two visible satellites
\* and the run went on to the end.
C4_Witness ==
  /\ pc = "done"
  /\ Len(events) >= 2
  /\ \E n \in 1..Len(user_vis_list) :
        /\ Len(user_vis_list[n].visible_sats) >= 2
        /\ \E m \in 1..Len(events) :
              /\ events[m].user = user_vis_list[n].user_id + 1
              /\ events[m].sat = user_vis_list[n].visible_sats[1] + 1

\* C5: the k-th output line of a satellite reports beam k, and never more
\* than BEAMS_PER_SATELLITE.
C5_BeamNumbersCount ==
  \A n \in 1..Len(events) :
     /\ events[n].beam = Cardinality({m \in 1..n : events[m].sat = events[n].sat})
     /\ events[n].beam <= BEAMS_PER_SATELLITE

\* C5 witness: the lines of one satellite go on counting across a line of
\* another satellite.
C5_Witness ==
  \E l, m, n \in 1..Len(events) :
     /\ l < m /\ m < n
     /\ events[l].sat = events[n].sat
     /\ events[m].sat # events[n].sat
     /\ events[n].beam >= 2

\* The place of a user (1-based, as printed) in the sorted user_vis_list.
PlaceOf(user) == CHOOSE n \in 1..Len(user_vis_list) :
                    user_vis_list[n].user_id = user - 1

\* C8: the users are processed in non-decreasing number of visible
\* satellites, and the output lines come in that processing order.
C8_ScarcityOrder ==
  pc \in {"assign", "done", "aborted"} =>
    /\ \A a, b \in 1..Len(user_vis_list) :
          a < b => Len(user_vis_list[a].visible_sats)
                     <= Len(user_vis_list[b].visible_sats)
    /\ \A m, n \in 1..Len(events) :
          m < n => /\ PlaceOf(events[m].user) < PlaceOf(events[n].user)
                   /\ PlaceOf(events[n].user) <= i + 1
                   /\ Len(user_vis_list[PlaceOf(events[m].user)].visible_sats)
                        <= Len(user_vis_list[PlaceOf(events[n].user)].visible_sats)

\* C8 witness: a user that comes later in the file but sees fewer
\* satellites got its line first.
C8_Witness ==
  \E m, n \in 1..Len(events) :
     /\ m < n
     /\ events[m].user > events[n].user
     /\ Len(user_vis_list[PlaceOf(events[m].user)].visible_sats)
          < Len(user_vis_list[PlaceOf(events[n].user)].visible_sats)

\* The user has a beam of BeamSlot (k, c) within 10 degrees, seen from the
\* satellite of line k.
ConflictsWith(k, c, user_pos) ==
  \E m \in 1..Len(SlotOf(k, c)) :
     AngleLT(calc_angle(PositionOf(k), user_pos, SlotOf(k, c)[m]), 10)

\* The satellite of line k can take the user: capacity is left and some
\* colour has no conflict.
Usable(k, user_pos) ==
  /\ CounterOf(k, 1) < BEAMS_PER_SATELLITE
  /\ \E c \in Colors : ~ConflictsWith(k, c, user_pos)

\* Every satellite of the list is full or conflicts on all colours.
AllBlocked(visible_sats, user_pos) ==
  \A j \in 1..Len(visible_sats) : ~Usable(LineOf(visible_sats[j]), user_pos)

\* The output line e names the first usable satellite of the list of the
\* user being processed, and the first colour without conflict on it.
FirstFit(e) ==
  LET entry == user_vis_list[i + 1]
      list == entry.visible_sats
      user_pos == scenario.user[entry.user_id + 1]
  IN /\ e.user = entry.user_id + 1
     /\ \E j \in 1..Len(list) :
          /\ list[j] = e.sat - 1
          /\ Usable(LineOf(list[j]), user_pos)
          /\ \A h \in 1..(j - 1) : ~Usable(LineOf(list[h]), user_pos)
          /\ \E c \in Colors :
               /\ e.color = COLOR_IDS[c]
               /\ ~ConflictsWith(LineOf(list[j]), c, user_pos)
               /\ \A b \in 1..(c - 1) : ConflictsWith(LineOf(list[j]), b, user_pos)

\* C6: whenever a line is written, its satellite is the first of the user's
\* visibility list that has capacity left and a colour without conflict, and
\* its colour is the first such colour in the order A, B, C, D.
C6_FirstFit ==
  [][events' # events => FirstFit(events'[Len(events')])]_vars

\* C7: a user is left without an output line exactly when every satellite
\* of its visibility list is full or conflicts on all colours at the moment
\* the user is processed.
C7_UnassignedIffBlocked ==
  [][InUserLoop =>
       LET entry == user_vis_list[i + 1]
           blocked == AllBlocked(entry.visible_sats,
                                 scenario.user[entry.user_id + 1])
       IN /\ (i' = i + 1 /\ ~assigned_beam) => blocked
          /\ pc' = "aborted" => blocked
          /\ events' # events => ~blocked]_vars

\* C9: a satellite's id is in a user's visibility list exactly when the user
\* passes the elevation test and the interferer test against that satellite.
C9_VisibleIffTestsPass ==
  \A n \in 1..Len(user_vis_list) : \A k \in SatLines :
     LET user_pos == scenario.user[user_vis_list[n].user_id + 1]
     IN IdOf(k) \in Range(user_vis_list[n].visible_sats)
          <=> (PassesElevation(user_pos, PositionOf(k))
               /\ PassesInterferers(user_pos, PositionOf(k)))

\* C10: every visibility list is in strictly ascending satellite-id order,
\* whatever the order of the satellite lines.
C10_ListsAscending ==
  \A n \in 1..Len(user_vis_list) :
     \A a, b \in 1..Len(user_vis_list[n].visible_sats) :
        a < b => user_vis_list[n].visible_sats[a]
                   < user_vis_list[n].visible_sats[b]

\* The run ended on an input error: the file could not be opened, or a line
\* did not split into 5 tokens.
FatalError == pc \in {"no_file", "bad_line"}

\* C11: when the input file cannot be opened, or any line is malformed, the
\* run ends there: no output line was written, no visibility entry was built,
\* the engine did not start, and nothing happens afterwards.
C11_NoPartialSuccess ==
  /\ [](FatalError => /\ events = <<>>
                      /\ user_vis_list = <<>>
                      /\ i = 0 /\ sat_list_i = 0 /\ ~assigned_beam
                      /\ \A n \in 1..Len(counters) : counters[n] = 0
                      /\ \A n \in 1..Len(beam_lists) : beam_lists[n] = <<>>)
  /\ [][~FatalError]_vars

\* C11 witness: the malformed line came after the lines of a satellite and
\* of a user that sees it, so the lines read would have given an output line.
C11_Witness ==
  /\ pc = "bad_line"
  /\ \E u \in 1..Len(scenario.user) : \E k \in SatLines :
        /\ PassesElevation(scenario.user[u], PositionOf(k))
        /\ PassesInterferers(scenario.user[u], PositionOf(k))

\* C12: a scenario without satellites gives no output line, and no
\* visibility list holds a satellite, whatever the users and interferers.
C12_NoSatsNoEvents ==
  Len(scenario.sat) = 0 =>
    /\ events = <<>>
    /\ \A n \in 1..Len(user_vis_list) : user_vis_list[n].visible_sats = <<>>

\* C12 witness: a run over users and an interferer, without satellites, went
\* through the builder and the engine to its end.
C12_Witness ==
  /\ pc = "done"
  /\ Len(scenario.sat) = 0
  /\ Len(scenario.user) >= 2
  /\ Len(scenario.interferer) >= 1
  /\ Len(user_vis_list) = Len(scenario.user)
  /\ i = Len(user_vis_list)

\* The place (1-based) of the first processed user that sees a satellite.
FirstWithSats ==
  CHOOSE n \in 1..Len(user_vis_list) :
     /\ user_vis_list[n].visible_sats # <<>>
     /\ \A m \in 1..(n - 1) : user_vis_list[m].visible_sats = <<>>

\* C13: the first processed user with a non-empty visibility list gets the
\* first output line: the first satellite of its list, beam 1, colour A.  With
\* one satellite, one user that passes the elevation test and no interferer
\* the whole output is the line "sat 1 beam 1 user 1 color A".
C13_FirstUserFirstSat ==
  /\ (/\ pc \in {"assign", "done", "aborted"}
      /\ \E n \in 1..Len(user_vis_list) : user_vis_list[n].visible_sats # <<>>)
     => LET n == FirstWithSats
            entry == user_vis_list[n]
        IN /\ (i >= n \/ pc = "aborted") => Len(events) >= 1
           /\ Len(events) >= 1 =>
                events[1] = [sat |-> entry.visible_sats[1] + 1, beam |-> 1,
                             user |-> entry.user_id + 1, color |-> COLOR_IDS[1]]
  /\ (/\ pc = "done"
      /\ Len(scenario.sat) = 1 /\ Len(scenario.user) = 1
      /\ Len(scenario.interferer) = 0
      /\ PassesElevation(scenario.user[1], scenario.sat[1]))
     => events = <<[sat |-> 1, beam |-> 1, user |-> 1, color |-> "A"]>>

\* The position of the user of the entry at place n of user_vis_list.
EntryPos(n) == scenario.user[user_vis_list[n].user_id + 1]

\* One colour-slot of the satellite of line k is usable for the two users:
\* one beam of capacity is left and a colour takes the first user, or
\* capacity is left and all colours but one conflict with both users.
OneSlotUsable(k, first_pos, second_pos) ==
  \/ /\ CounterOf(k, 1) = BEAMS_PER_SATELLITE - 1
     /\ \E c \in Colors : ~ConflictsWith(k, c, first_pos)
  \/ /\ CounterOf(k, 1) < BEAMS_PER_SATELLITE
     /\ \E c \in Colors :
          /\ ~ConflictsWith(k, c, first_pos)
          /\ ~ConflictsWith(k, c, second_pos)
          /\ \A b \in Colors \ {c} : /\ ConflictsWith(k, b, first_pos)
                                     /\ ConflictsWith(k, b, second_pos)

\* The satellites (as input lines) a user at pos passes both tests against.
VisibleLines(pos) ==
  {k \in SatLines : PassesElevation(pos, PositionOf(k))
                    /\ PassesInterferers(pos, PositionOf(k))}

\* The engine is about to process the user at place p; the user at the later
\* place q is visible to the same single satellite, the two are within 10
\* degrees of each other seen from it, and one colour-slot of it is usable.
TwoUsersOneSlot(p, q) ==
  /\ InUserLoop /\ i = p - 1 /\ sat_list_i = 0 /\ ~assigned_beam
  /\ p < q
  /\ LET first_sees == VisibleLines(EntryPos(p))
     IN \E k \in first_sees :
           /\ first_sees = {k}
           /\ VisibleLines(EntryPos(q)) = {k}
           /\ AngleLT(calc_angle(PositionOf(k), EntryPos(p), EntryPos(q)), 10)
           /\ OneSlotUsable(k, EntryPos(p), EntryPos(q))

\* The user at place q is visible to one satellite, and it is full or
\* conflicts on all colours.
SingleSatBlocked(q) ==
  LET sees == VisibleLines(EntryPos(q))
  IN \E k \in sees : sees = {k} /\ ~Usable(k, EntryPos(q))

\* C14: of two users that see only the same satellite, are within 10 degrees
\* of each other seen from it and find one usable colour-slot, the one
\* processed first gets the output line and the other never gets one: the
\* step that processes the first writes its line and leaves the second
\* blocked, and a blocked user stays blocked and is named in no line.
C14_FirstOfTwoAssigned ==
  [][/\ \A p, q \in 1..Len(user_vis_list) :
          TwoUsersOneSlot(p, q) =>
            /\ Len(events') = Len(events) + 1
            /\ events'[Len(events')].user = user_vis_list[p].user_id + 1
            /\ SingleSatBlocked(q)'
     /\ \A q \in 1..Len(user_vis_list) :
          (pc = "assign" /\ q > i /\ SingleSatBlocked(q)) =>
            /\ SingleSatBlocked(q)'
            /\ events' # events =>
                 events'[Len(events')].user # user_vis_list[q].user_id + 1]_vars

\* C14 witness: the run is over, the first of two such users holds the last
\* free colour of the satellite and the second, processed later, has no line.
C14_Witness ==
  /\ pc = "done"
  /\ \E p, q \in 1..Len(user_vis_list) : \E k \in SatLines :
        /\ p < q
        /\ VisibleLines(EntryPos(p)) = {k}
        /\ EntryPos(p) = EntryPos(q)
        /\ \E n \in 1..Len(events) :
              /\ events[n].user = user_vis_list[p].user_id + 1
              /\ events[n].color = COLOR_IDS[COLORS_PER_SATELLITE]
        /\ \A n \in 1..Len(events) :
              events[n].user # user_vis_list[q].user_id + 1

\* C15: for all positions V, A, B with A and B off V, calc_angle(V, A, B) is
\* in [0, 180] (its cosine in [-1, 1]), it equals calc_angle(V, B, A), and
\* calc_angle(V, A, A) is 0 (its cosine is 1).
C15_AngleProperties ==
  pc = "returned" =>
    /\ ~FloatLess(geo.cosine, FloatMinusOne)
    /\ ~FloatLess(FloatOne, geo.cosine)
    /\ geo.cosine = dot_product_bound(geo.vertex, geo.point_b, geo.point_a)
    /\ geo.point_a = geo.point_b => geo.cosine = FloatOne

\* C16: with the ids 1..N on the satellite lines, in any line order, the
\* assertion of line 155 holds each time it is evaluated: the records at
\* sat_i * 4 + color_i are those of satellite sat_i, one per colour in the
\* order of COLOR_IDS, sat_pos is the position given on the input line of
\* satellite sat_i, and no run aborts.
C16_AssertionHolds ==
  /\ pc # "aborted"
  /\ (InSatLoop /\ ~CapacityExhausted(counters[cur_beam_entry.total_sat_beam_count]))
     => /\ \A color_i \in 0..(COLORS_PER_SATELLITE - 1) :
             LET next_beam_entry == sat_beam_list[cur_sat_beam_i + color_i + 1]
             IN /\ next_beam_entry.sat_id = cur_sat_i
                /\ next_beam_entry.color = COLOR_IDS[color_i + 1]
        /\ cur_sat_pos = PositionOf(LineOf(cur_sat_i))

\* The BeamSlot (k, c) gains pos at its end and the counter of satellite k
\* goes up by one; every other slot and counter keeps its value.
OneSlotGains(k, c, pos) ==
  /\ SlotOf(k, c)' = Append(SlotOf(k, c), pos)
  /\ CounterOf(k, c)' = CounterOf(k, c) + 1
  /\ \A h \in SatLines : \A b \in Colors :
        /\ (h # k \/ b # c) => SlotOf(h, b)' = SlotOf(h, b)
        /\ h # k => CounterOf(h, b)' = CounterOf(h, b)

\* C17: a step of the engine that assigns the user appends the user's
\* position to exactly one BeamSlot, the one its output line names, and adds
\* one to exactly that satellite's counter; any other step of the engine
\* changes no slot and no counter; the positions, the records and the
\* visibility lists never change in the engine.
C17_EngineFrame ==
  [][pc = "assign" =>
       /\ scenario' = scenario
       /\ sat_beam_list' = sat_beam_list
       /\ user_vis_list' = user_vis_list
       /\ Len(beam_lists') = Len(beam_lists)
       /\ Len(counters') = Len(counters)
       /\ IF events' # events
          THEN /\ ~assigned_beam
               /\ \E k \in SatLines : \E c \in Colors :
                     /\ OneSlotGains(k, c, cur_user_pos)
                     /\ events' = Append(events,
                          [sat |-> IdOf(k) + 1, beam |-> CounterOf(k, c)',
                           user |-> cur_user_i + 1, color |-> COLOR_IDS[c]])
          ELSE beam_lists' = beam_lists /\ counters' = counters]_vars

\* C17 witness: the engine ended after it gave beams on two colours of a
\* satellite and left a user that sees a satellite without one.
C17_Witness ==
  /\ pc = "done"
  /\ \E k \in SatLines : Len(SlotOf(k, 1)) >= 1 /\ Len(SlotOf(k, 2)) >= 1
  /\ \E n \in 1..Len(user_vis_list) :
        /\ user_vis_list[n].visible_sats # <<>>
        /\ \A m \in 1..Len(events) :
              events[m].user # user_vis_list[n].user_id + 1

\* C18: the engine is one forward pass and it ends.  Each of its steps looks
\* at the next satellite of the current user's list, or goes on to the next
\* user, or returns once every user was processed; and every run that
\* enters the engine returns from it.
C18_SingleForwardPass ==
  /\ [][pc = "assign" =>
          \/ /\ pc' = "assign" /\ i' = i
             /\ sat_list_i < Len(user_vis_list[i + 1].visible_sats)
             /\ sat_list_i' = sat_list_i + 1
          \/ /\ pc' = "assign" /\ i' = i + 1
             /\ i' <= Len(user_vis_list)
             /\ sat_list_i' = 0
          \/ /\ pc' = "done" /\ i' = i
             /\ i = Len(user_vis_list)]_vars
  /\ (pc = "assign" ~> pc = "done")

C20_ColorsFillInOrder ==
  \A k \in SatLines : \A c \in Colors :
     /\ RecordOf(k, c).color = COLOR_IDS[c]
     /\ SlotOf(k, c) # <<>> => \A b \in 1..(c - 1) : SlotOf(k, b) # <<>>

\* C20 witness: a satellite serves beams in the colours A, B and C, and
\* another satellite line of the file serves none in B.
C20_Witness ==
  /\ pc = "done"
  /\ \E k \in SatLines :
        /\ SlotOf(k, 3) # <<>>
        /\ \E h \in SatLines : h # k /\ SlotOf(h, 2) = <<>>
====
